---- MODULE Spec2Model ----
(***************************************************************************)
(* MovieGraphPy (src/proglab3proje/app.py): MovieGraphApp over a Neo4j     *)
(* movie graph, and the menu loop of main() that drives it.                *)
(*                                                                         *)
(* Strings are sequences of one-character strings, so that str.strip,      *)
(* str.replace and CONTAINS are computed and not assumed.                  *)
(***************************************************************************)
EXTENDS Integers, Sequences, FiniteSets, TLC

VARIABLES
    directed,               \* data store: number of (p)-[:DIRECTED]->(T1) relationships, per person
    acted,                  \* data store: number of (p)-[:ACTED_IN]->(T1) relationships, per person
    pc,                     \* position inside the running MovieGraphApp method ("idle": none runs)
    op,                     \* the method that runs (or ran last)
    arg,                    \* its argument (search term / movie title)
    sessions,               \* number of open driver sessions
    record,                 \* result.single() of the export query
    nodes,                  \* generate_graph_json: nodes
    node_ids,               \* generate_graph_json: node_ids
    links,                  \* generate_graph_json: links
    idx,                    \* position of the running for loop in its collection
    pending,                \* what leaves the with block: a return value, or Raise
    ret,                    \* value the last call returned to its caller
    exports_dir,            \* whether the directory exports/ exists
    file,                   \* content of exports/graph.json
    main_pc,                \* position of main()
    last_searched_movies,   \* main: last_searched_movies
    selected_movie,         \* app.selected_movie
    effects,                \* history: what the running call has done to the outside so far
    raised,                 \* history: the kind of exception the running call raised
    file_before,            \* history: exports/graph.json when the running call began
    searched                \* history: titles of all entries a search returned to main

vars == <<directed, acted, pc, op, arg, sessions, record, nodes, node_ids, links, idx,
          pending, ret, exports_dir, file, main_pc, last_searched_movies, selected_movie,
          effects, raised, file_before, searched>>

db_vars == <<directed, acted>>
build_vars == <<record, nodes, node_ids, links, idx>>
fs_vars == <<exports_dir, file>>
main_vars == <<main_pc, last_searched_movies, selected_movie, searched>>

(***************************************************************************)
(* Bounds                                                                  *)
(***************************************************************************)
\* longest search term typed
MaxTermLen == 3
\* most relationships of one type between one person and the movie
MaxMult == 2
\* most relationships of the exported movie in the data store
MaxEdges == 3
\* longest director_rels / actor_rels of a free export record
MaxRels == 2
\* most relationships of the exported movie in the data store under the menu loop
MaxMainEdges == 1

(***************************************************************************)
(* Python values                                                           *)
(***************************************************************************)
Null == "None"
PyNone == [none |-> TRUE]
PyBool(b) == [bool |-> b]
PyList(items) == [list |-> items]
PyDict(d) == [dict |-> d]
Raise == [exception |-> TRUE]
NoRecord == [absent |-> TRUE]

\* truth value of a Python return value, as `if details:` takes it
PyTruthy(v) ==
    IF v = PyNone THEN FALSE
    ELSE IF "bool" \in DOMAIN v THEN v.bool
    ELSE IF "list" \in DOMAIN v THEN v.list # <<>>
    ELSE TRUE

(***************************************************************************)
(* Strings                                                                 *)
(***************************************************************************)
Whitespace == {" ", "\t"}

RECURSIVE LStrip(_)
LStrip(s) == IF s # <<>> /\ Head(s) \in Whitespace THEN LStrip(Tail(s)) ELSE s

RECURSIVE RStrip(_)
RStrip(s) ==
    IF s # <<>> /\ s[Len(s)] \in Whitespace THEN RStrip(SubSeq(s, 1, Len(s) - 1)) ELSE s

\* str.strip()
Strip(s) == RStrip(LStrip(s))

\* str.replace(old, new) for one-character old and new
Replace(s, old, new) == [k \in 1..Len(s) |-> IF s[k] = old THEN new ELSE s[k]]

\* Cypher: s CONTAINS sub (case-sensitive substring)
Contains(s, sub) ==
    \E k \in 0..(Len(s) - Len(sub)) : SubSeq(s, k + 1, k + Len(sub)) = sub

SeqsUpTo(S, n) == UNION {[1..k -> S] : k \in 0..n}

\* all orderings of a finite set
Orderings(S) ==
    {f \in [1..Cardinality(S) -> S] : \A a, b \in 1..Cardinality(S) : a # b => f[a] # f[b]}

(***************************************************************************)
(* The data store: two movies, four persons.  p1 and p2 are two persons    *)
(* whose names differ only by a space against an underscore; p4 carries no *)
(* name property.  The relationships of T1 are the variables directed and  *)
(* acted; T2 has none.                                                     *)
(***************************************************************************)
T1 == <<"b", " ", "b">>
T2 == <<"b", "b">>
TAbsent == <<"b">>
Titles == {T1, T2}

Movie(title) ==
    IF title = T1
    THEN [title |-> T1, released |-> 1999, tagline |-> <<"x">>]
    ELSE [title |-> T2, released |-> 2003, tagline |-> <<"y">>]

Persons == {"p1", "p2", "p3", "p4"}

HasName(p) == p \in {"p1", "p2", "p3"}

Name(p) ==
    CASE p = "p1" -> <<"a", " ", "b">>
      [] p = "p2" -> <<"a", "_", "b">>
      [] p = "p3" -> <<"c">>

Directors(title) == IF title = T1 THEN {p \in Persons : directed[p] > 0} ELSE {}
Actors(title) == IF title = T1 THEN {p \in Persons : acted[p] > 0} ELSE {}

RECURSIVE Sum(_, _)
Sum(f, S) == IF S = {} THEN 0 ELSE LET x == CHOOSE y \in S : TRUE IN f[x] + Sum(f, S \ {x})

EdgeCount == Sum(directed, Persons) + Sum(acted, Persons)

\* the rows of an OPTIONAL MATCH of one relationship type: one per
\* relationship, or a single null row when there is none
MatchedRows(mult, people) ==
    IF people = {} THEN {<<Null, 1>>}
    ELSE UNION {{<<p, n>> : n \in 1..mult[p]} : p \in people}

\* collect(DISTINCT {person: x, rel: rel}) over those rows, in some order
CollectDistinct(rows, rel) ==
    LET people == {r[1] : r \in rows}
    IN  {[k \in 1..Cardinality(people) |-> [person |-> o[k], rel |-> rel]] : o \in Orderings(people)}

\* a collect that keeps one entry per row (no DISTINCT)
ActorRelsPerRow(title) ==
    LET rows == MatchedRows(acted, Actors(title))
    IN  {[k \in 1..Cardinality(rows) |-> [person |-> o[k][1], rel |-> "ACTED_IN"]] :
            o \in Orderings(rows)}

\* an actor_rels collected from d, the director variable, instead of a
ActorRelsFromDirectors(title) ==
    CollectDistinct(MatchedRows(directed, Directors(title)), "ACTED_IN")

\* director_rels of the export query
DirectorRels(title) == CollectDistinct(MatchedRows(directed, Directors(title)), "DIRECTED")

\* actor_rels of the export query
ActorRels(title) == CollectDistinct(MatchedRows(acted, Actors(title)), "ACTED_IN")

\* a query that creates the movie it does not find (MERGE for MATCH)
ExportQueryMerge(title) ==
    IF title \in Titles
    THEN {[m |-> Movie(title), director_rels |-> d, actor_rels |-> a] :
             d \in DirectorRels(title), a \in ActorRels(title)}
    ELSE {[m |-> [title |-> title, released |-> 0, tagline |-> <<>>],
           director_rels |-> <<[person |-> Null, rel |-> "DIRECTED"]>>,
           actor_rels |-> <<[person |-> Null, rel |-> "ACTED_IN"]>>]}

\* the export query and result.single(): the records it can return
ExportQuery(title) ==
    IF title \in Titles
    THEN {[m |-> Movie(title), director_rels |-> d, actor_rels |-> a] :
             d \in DirectorRels(title), a \in ActorRels(title)}
    ELSE {NoRecord}

\* the detail query: collect(DISTINCT x.name) drops nulls and repeated names
DetailQuery(title) ==
    IF title \in Titles
    THEN LET dn == {Name(p) : p \in {q \in Directors(title) : HasName(q)}}
             an == {Name(p) : p \in {q \in Actors(title) : HasName(q)}}
         IN  {[title |-> Movie(title).title, released |-> Movie(title).released,
               tagline |-> Movie(title).tagline, directors |-> d, actors |-> a] :
                 d \in Orderings(dn), a \in Orderings(an)}
    ELSE {NoRecord}

\* the search query: the movies whose title contains the term, newest first
SearchQuery(term) ==
    LET hits == {t \in Titles : Contains(t, term)}
    IN  {[k \in 1..Cardinality(hits) |-> Movie(o[k])] : o \in
            {f \in Orderings(hits) :
                \A a, b \in 1..Cardinality(hits) :
                    a < b => Movie(f[a]).released >= Movie(f[b]).released}}

(***************************************************************************)
(* MovieGraphApp: pure parts                                               *)
(***************************************************************************)
\* `not search_term` alone
IsBlankNoStrip(search_term) == search_term = <<>>

\* not search_term or not search_term.strip()
IsBlank(search_term) == search_term = <<>> \/ Strip(search_term) = <<>>

\* the list comprehensions of get_movie_details
NotNone(names) == SelectSeq(names, LAMBDA d : d # <<Null>>)

DetailsOf(rec) ==
    [title |-> rec.title, released |-> rec.released, tagline |-> rec.tagline,
     directors |-> NotNone(rec.directors), actors |-> NotNone(rec.actors)]

\* `if dir_rel['person']`: None is false; every person of the store carries
\* at least one property, so its node is true
Truthy(person) == person # Null

MovieId(title) == <<"m", "o", "v", "i", "e", "_">> \o Replace(title, " ", "_")

PersonId(name) == <<"p", "e", "r", "s", "o", "n", "_">> \o Replace(name, " ", "_")

MovieNode(m) ==
    [id |-> MovieId(m.title), label |-> m.title, type |-> "Movie",
     released |-> m.released, tagline |-> m.tagline]

PersonNode(person, role) ==
    [id |-> PersonId(Name(person)), label |-> Name(person), type |-> "Person", role |-> role]

\* a node appended without looking at node_ids
AddPersonNodeAlways(ns, ids, person, role) == Append(ns, PersonNode(person, role))

\* a node whose role follows the last relationship seen
AddPersonNodeLastRole(ns, ids, person, role) ==
    IF PersonId(Name(person)) \notin ids
    THEN Append(ns, PersonNode(person, role))
    ELSE [k \in 1..Len(ns) |->
             IF ns[k].id = PersonId(Name(person)) THEN PersonNode(person, role) ELSE ns[k]]

\* if person_id not in node_ids: nodes.append({...})
AddPersonNode(ns, ids, person, role) ==
    IF PersonId(Name(person)) \notin ids THEN Append(ns, PersonNode(person, role)) ELSE ns

\* a link whose source is built from the name as it is
PersonLinkRawName(person, movie_id, type) ==
    [source |-> <<"p", "e", "r", "s", "o", "n", "_">> \o Name(person),
     target |-> movie_id, type |-> type]

\* links.append({'source': person_id, 'target': movie_id, 'type': ...})
PersonLink(person, movie_id, type) ==
    [source |-> PersonId(Name(person)), target |-> movie_id, type |-> type]

\* what each method returns from its except clause
ErrorValue(o) ==
    CASE o = "test" -> PyBool(FALSE)
      [] o = "search" -> PyList(<<>>)
      [] o = "details" -> PyNone
      [] o = "export" -> PyBool(FALSE)

\* a session that stays open when the block is left by an exception
SessionsAfterExitLeak(s, leaving) == IF leaving = Raise THEN s ELSE s - 1

\* leaving `with self.driver.session() as session:` closes the session
SessionsAfterExit(s, leaving) == s - 1

(***************************************************************************)
(* File system                                                             *)
(***************************************************************************)
Absent == [missing |-> TRUE]
Truncated == [truncated |-> TRUE]
Document(ns, ls) == [nodes |-> ns, links |-> ls]
IsDocument(f) == "nodes" \in DOMAIN f

(***************************************************************************)
(* MovieGraphApp: the methods, step by step                                *)
(***************************************************************************)
NoLocals ==
    /\ record' = NoRecord
    /\ nodes' = <<>>
    /\ node_ids' = {}
    /\ links' = <<>>
    /\ idx' = 0

\* a method is entered: nothing done yet
Begin(o, a) ==
    /\ op' = o
    /\ arg' = a
    /\ pc' = "open"
    /\ pending' = PyNone
    /\ ret' = PyNone
    /\ effects' = {}
    /\ raised' = "none"
    /\ file_before' = file
    /\ UNCHANGED <<db_vars, sessions, build_vars, fs_vars>>

\* the method returns v to its caller
Return(v) ==
    /\ ret' = v
    /\ pc' = "idle"
    /\ pending' = PyNone
    /\ NoLocals

\* search_movies up to its first try: the guard returns [] at once
BeginSearch(search_term) ==
    IF IsBlank(search_term)
    THEN /\ op' = "search"
         /\ arg' = search_term
         /\ ret' = PyList(<<>>)
         /\ pc' = "idle"
         /\ pending' = PyNone
         /\ effects' = {}
         /\ raised' = "none"
         /\ file_before' = file
         /\ UNCHANGED <<db_vars, sessions, build_vars, fs_vars>>
    ELSE Begin("search", search_term)

\* with self.driver.session() as session:
OpenSession ==
    /\ pc = "open"
    /\ \/ /\ sessions' = sessions + 1
          /\ effects' = effects \cup {"session"}
          /\ pc' = "run"
          /\ UNCHANGED raised
       \/ /\ raised' = "session"
          /\ pc' = "except"
          /\ UNCHANGED <<sessions, effects>>
    /\ UNCHANGED <<db_vars, op, arg, build_vars, pending, ret, fs_vars, main_vars, file_before>>

\* the query raises, or the result cannot be read
QueryFails ==
    /\ effects' = effects \cup {"query"}
    /\ raised' = "query"
    /\ pending' = Raise
    /\ pc' = "exit"

\* test_connection: session.run("RETURN 1")
RunTest ==
    /\ pc = "run" /\ op = "test"
    /\ \/ /\ effects' = effects \cup {"query"}
          /\ pending' = PyBool(TRUE)
          /\ pc' = "exit"
          /\ UNCHANGED raised
       \/ QueryFails
    /\ UNCHANGED <<db_vars, op, arg, sessions, build_vars, ret, fs_vars, main_vars, file_before>>

\* search_movies: the query on search_term.strip() and the loop over its rows
RunSearch ==
    /\ pc = "run" /\ op = "search"
    /\ \/ \E rows \in SearchQuery(Strip(arg)) :
             /\ effects' = effects \cup {"query"}
             /\ pending' = PyList(rows)
             /\ pc' = "exit"
             /\ UNCHANGED raised
       \/ QueryFails
    /\ UNCHANGED <<db_vars, op, arg, sessions, build_vars, ret, fs_vars, main_vars, file_before>>

\* get_movie_details: the query, result.single() and the mapping
RunDetails ==
    /\ pc = "run" /\ op = "details"
    /\ \/ \E rec \in DetailQuery(arg) :
             /\ effects' = effects \cup {"query"}
             /\ pending' = IF rec = NoRecord THEN PyNone ELSE PyDict(DetailsOf(rec))
             /\ pc' = "exit"
             /\ UNCHANGED raised
       \/ QueryFails
    /\ UNCHANGED <<db_vars, op, arg, sessions, build_vars, ret, fs_vars, main_vars, file_before>>

\* generate_graph_json: the query and result.single()
RunExport ==
    /\ pc = "run" /\ op = "export"
    /\ \/ \E rec \in ExportQuery(arg) :
             /\ effects' = effects \cup {"query"}
             /\ record' = rec
             /\ pc' = "fetched"
             /\ UNCHANGED <<raised, pending>>
       \/ QueryFails /\ UNCHANGED record
    /\ UNCHANGED <<db_vars, op, arg, sessions, nodes, node_ids, links, idx, ret, fs_vars,
                   main_vars, file_before>>

\* generate_graph_json: `if not record: return False`, else the movie node
CheckRecord ==
    /\ pc = "fetched"
    /\ IF record = NoRecord
       THEN /\ pending' = PyBool(FALSE)
            /\ pc' = "exit"
            /\ UNCHANGED <<nodes, node_ids, links, idx>>
       ELSE /\ nodes' = <<MovieNode(record.m)>>
            /\ node_ids' = {MovieId(record.m.title)}
            /\ links' = <<>>
            /\ idx' = 1
            /\ pc' = "directors"
            /\ UNCHANGED pending
    /\ UNCHANGED <<db_vars, op, arg, sessions, record, ret, fs_vars, main_vars, effects, raised,
                   file_before>>

\* one pass of a `for rel in record[...]` loop body, for the entry rel
RelStep(rel, role, type) ==
    IF ~Truthy(rel.person)
    THEN /\ idx' = idx + 1
         /\ UNCHANGED <<nodes, node_ids, links, pending, raised, pc>>
    ELSE IF ~HasName(rel.person)
    THEN \* person['name'] raises KeyError
         /\ pending' = Raise
         /\ raised' = "mapping"
         /\ pc' = "exit"
         /\ UNCHANGED <<nodes, node_ids, links, idx>>
    ELSE /\ nodes' = AddPersonNode(nodes, node_ids, rel.person, role)
         /\ node_ids' = node_ids \cup {PersonId(Name(rel.person))}
         /\ links' = Append(links, PersonLink(rel.person, MovieId(record.m.title), type))
         /\ idx' = idx + 1
         /\ UNCHANGED <<pending, raised, pc>>

\* generate_graph_json: for dir_rel in record['director_rels']
DirectorStep ==
    /\ pc = "directors"
    /\ IF idx > Len(record.director_rels)
       THEN /\ pc' = "actors"
            /\ idx' = 1
            /\ UNCHANGED <<nodes, node_ids, links, pending, raised>>
       ELSE RelStep(record.director_rels[idx], "Director", "DIRECTED")
    /\ UNCHANGED <<db_vars, op, arg, sessions, record, ret, fs_vars, main_vars, effects,
                   file_before>>

\* generate_graph_json: for act_rel in record['actor_rels']
ActorStep ==
    /\ pc = "actors"
    /\ IF idx > Len(record.actor_rels)
       THEN /\ pc' = "write"
            /\ UNCHANGED <<nodes, node_ids, links, idx, pending, raised>>
       ELSE RelStep(record.actor_rels[idx], "Actor", "ACTED_IN")
    /\ UNCHANGED <<db_vars, op, arg, sessions, record, ret, fs_vars, main_vars, effects,
                   file_before>>

\* generate_graph_json: os.makedirs, open(..., 'w') and json.dump
WriteFile ==
    /\ pc = "write"
    /\ \/ \* os.makedirs raises
          /\ effects' = effects \cup {"makedirs"}
          /\ pending' = Raise /\ raised' = "write"
          /\ UNCHANGED <<exports_dir, file>>
       \/ \* open raises
          /\ effects' = effects \cup {"makedirs", "open"}
          /\ exports_dir' = TRUE
          /\ pending' = Raise /\ raised' = "write"
          /\ UNCHANGED file
       \/ \* the file is opened for writing, json.dump raises
          /\ effects' = effects \cup {"makedirs", "open", "dump"}
          /\ exports_dir' = TRUE
          /\ file' = Truncated
          /\ pending' = Raise /\ raised' = "write"
       \/ /\ effects' = effects \cup {"makedirs", "open", "dump"}
          /\ exports_dir' = TRUE
          /\ file' = Document(nodes, links)
          /\ pending' = PyBool(TRUE)
          /\ UNCHANGED raised
    /\ pc' = "exit"
    /\ UNCHANGED <<db_vars, op, arg, sessions, build_vars, ret, main_vars, file_before>>

\* the with block is left: the session is closed, then the method returns
\* or its except clause takes over
ExitSession ==
    /\ pc = "exit"
    /\ sessions' = SessionsAfterExit(sessions, pending)
    /\ IF pending = Raise
       THEN /\ pc' = "except"
            /\ UNCHANGED <<pending, ret, build_vars>>
       ELSE Return(pending)
    /\ UNCHANGED <<db_vars, op, arg, fs_vars, main_vars, effects, raised, file_before>>

\* except Exception as e: print(...); return <the method's error value>
Except ==
    /\ pc = "except"
    /\ Return(ErrorValue(op))
    /\ UNCHANGED <<db_vars, op, arg, sessions, fs_vars, main_vars, effects, raised, file_before>>

Step ==
    \/ OpenSession
    \/ RunTest
    \/ RunSearch
    \/ RunDetails
    \/ RunExport
    \/ CheckRecord
    \/ DirectorStep
    \/ ActorStep
    \/ WriteFile
    \/ ExitSession
    \/ Except

(***************************************************************************)
(* Any caller of MovieGraphApp                                             *)
(***************************************************************************)
TermChars == {" ", "b"}
Terms == SeqsUpTo(TermChars, MaxTermLen)
TitleArgs == Titles \cup {TAbsent}

CallTest ==
    /\ pc = "idle" /\ main_pc = "api"
    /\ Begin("test", <<>>)
    /\ UNCHANGED main_vars

CallSearch ==
    /\ pc = "idle" /\ main_pc = "api"
    /\ \E term \in Terms : BeginSearch(term)
    /\ UNCHANGED main_vars

CallDetails ==
    /\ pc = "idle" /\ main_pc = "api"
    /\ \E title \in TitleArgs : Begin("details", title)
    /\ UNCHANGED main_vars

CallExport ==
    /\ pc = "idle" /\ main_pc = "api"
    /\ \E title \in TitleArgs : Begin("export", title)
    /\ UNCHANGED main_vars

InitApp ==
    /\ pc = "idle"
    /\ op = "none"
    /\ arg = <<>>
    /\ sessions = 0
    /\ record = NoRecord
    /\ nodes = <<>>
    /\ node_ids = {}
    /\ links = <<>>
    /\ idx = 0
    /\ pending = PyNone
    /\ ret = PyNone
    /\ exports_dir = FALSE
    /\ file = Absent
    /\ last_searched_movies = <<>>
    /\ selected_movie = PyNone
    /\ effects = {}
    /\ raised = "none"
    /\ file_before = Absent
    /\ searched = {}

InitStore ==
    /\ directed \in [Persons -> 0..MaxMult]
    /\ acted \in [Persons -> 0..MaxMult]
    /\ EdgeCount <= MaxEdges

Init == InitStore /\ InitApp /\ main_pc = "api"

Next == CallTest \/ CallSearch \/ CallDetails \/ CallExport \/ Step

Spec == Init /\ [][Next]_vars

(***************************************************************************)
(* main(): the menu loop                                                   *)
(***************************************************************************)
\* what the user can type for a film number: a number, or something int() rejects
NumberInputs == {[text |-> "x"]} \cup {[int |-> n] : n \in 0..(Cardinality(Titles) + 1)}

\* int(input(...)) succeeded and 1 <= movie_num <= len(last_searched_movies)
ValidNumber(inp) ==
    /\ "int" \in DOMAIN inp
    /\ ~(inp.int < 1 \/ inp.int > Len(last_searched_movies))

\* a title taken from the wrong key of the selected entry
SelectedTagline(movie) == movie.tagline

\* app.selected_movie['title']
SelectedTitle(movie) == movie.title

\* if not app.test_connection(): ...
MainProbe ==
    /\ main_pc = "start" /\ pc = "idle"
    /\ Begin("test", <<>>)
    /\ main_pc' = "probing"
    /\ UNCHANGED <<last_searched_movies, selected_movie, searched>>

\* test_connection returned: app.close(); return, or on to the loop
MainProbeReturn ==
    /\ main_pc = "probing" /\ pc = "idle"
    /\ main_pc' = IF PyTruthy(ret) THEN "menu" ELSE "closed"
    /\ UNCHANGED <<db_vars, pc, op, arg, sessions, build_vars, pending, ret, fs_vars,
                   last_searched_movies, selected_movie, effects, raised, file_before, searched>>

\* choice == '1': the term is read and stripped; an empty one is refused
Choice1 ==
    /\ main_pc = "menu"
    /\ \E typed \in Terms :
          LET search_term == Strip(typed)
          IN  IF search_term = <<>>
              THEN UNCHANGED vars
              ELSE /\ BeginSearch(search_term)
                   /\ main_pc' = "searching"
                   /\ UNCHANGED <<last_searched_movies, selected_movie, searched>>

\* movies = app.search_movies(search_term); last_searched_movies = movies
Choice1Return ==
    /\ main_pc = "searching" /\ pc = "idle"
    /\ last_searched_movies' = ret.list
    /\ searched' = searched \cup {ret.list[k].title : k \in 1..Len(ret.list)}
    /\ main_pc' = "menu"
    /\ UNCHANGED <<db_vars, pc, op, arg, sessions, build_vars, pending, ret, fs_vars,
                   selected_movie, effects, raised, file_before>>

\* choice == '2': a film of the last search is selected and its details fetched
Choice2 ==
    /\ main_pc = "menu"
    /\ \E inp \in NumberInputs :
          IF last_searched_movies = <<>> \/ ~ValidNumber(inp)
          THEN UNCHANGED vars
          ELSE /\ selected_movie' = last_searched_movies[inp.int]
               /\ Begin("details", SelectedTitle(last_searched_movies[inp.int]))
               /\ main_pc' = "detailing"
               /\ UNCHANGED <<last_searched_movies, searched>>

\* get_movie_details returned: the details or a message are printed
Choice2Return ==
    /\ main_pc = "detailing" /\ pc = "idle"
    /\ main_pc' = "menu"
    /\ UNCHANGED <<db_vars, pc, op, arg, sessions, build_vars, pending, ret, fs_vars,
                   last_searched_movies, selected_movie, effects, raised, file_before, searched>>

\* choice == '3': the selected film, or one picked from the last search, is exported
Choice3 ==
    /\ main_pc = "menu"
    /\ IF selected_movie # PyNone
       THEN /\ Begin("export", SelectedTitle(selected_movie))
            /\ main_pc' = "exporting"
            /\ UNCHANGED <<last_searched_movies, selected_movie, searched>>
       ELSE \E inp \in NumberInputs :
               IF last_searched_movies = <<>> \/ ~ValidNumber(inp)
               THEN UNCHANGED vars
               ELSE /\ selected_movie' = last_searched_movies[inp.int]
                    /\ Begin("export", SelectedTitle(last_searched_movies[inp.int]))
                    /\ main_pc' = "exporting"
                    /\ UNCHANGED <<last_searched_movies, searched>>

\* generate_graph_json returned: a message is printed
Choice3Return ==
    /\ main_pc = "exporting" /\ pc = "idle"
    /\ main_pc' = "menu"
    /\ UNCHANGED <<db_vars, pc, op, arg, sessions, build_vars, pending, ret, fs_vars,
                   last_searched_movies, selected_movie, effects, raised, file_before, searched>>

\* choice == '4': break; finally: app.close()
Choice4 ==
    /\ main_pc = "menu"
    /\ main_pc' = "closed"
    /\ UNCHANGED <<db_vars, pc, op, arg, sessions, build_vars, pending, ret, fs_vars,
                   last_searched_movies, selected_movie, effects, raised, file_before, searched>>

InitMain ==
    /\ directed \in [Persons -> 0..MaxMult]
    /\ acted \in [Persons -> 0..MaxMult]
    /\ EdgeCount <= MaxMainEdges
    /\ InitApp
    /\ main_pc = "start"

NextMain ==
    \/ MainProbe
    \/ MainProbeReturn
    \/ Choice1
    \/ Choice1Return
    \/ Choice2
    \/ Choice2Return
    \/ Choice3
    \/ Choice3Return
    \/ Choice4
    \/ Step

SpecMain == InitMain /\ [][NextMain]_vars

(***************************************************************************)
(* generate_graph_json on a free record: the construction of the graph     *)
(* from any director_rels and actor_rels, the query left aside             *)
(***************************************************************************)
RelEntries(rel) == {[person |-> p, rel |-> rel] : p \in Persons \cup {Null}}

FreeRecords ==
    {[m |-> Movie(t), director_rels |-> d, actor_rels |-> a] :
        t \in Titles,
        d \in SeqsUpTo(RelEntries("DIRECTED"), MaxRels),
        a \in SeqsUpTo(RelEntries("ACTED_IN"), MaxRels)}

InitRecord ==
    /\ directed = [p \in Persons |-> 0]
    /\ acted = [p \in Persons |-> 0]
    /\ pc = "fetched"
    /\ op = "export"
    /\ sessions = 1
    /\ record \in FreeRecords
    /\ arg = record.m.title
    /\ nodes = <<>>
    /\ node_ids = {}
    /\ links = <<>>
    /\ idx = 0
    /\ pending = PyNone
    /\ ret = PyNone
    /\ exports_dir = FALSE
    /\ file = Absent
    /\ main_pc = "api"
    /\ last_searched_movies = <<>>
    /\ selected_movie = PyNone
    /\ effects = {"session", "query"}
    /\ raised = "none"
    /\ file_before = Absent
    /\ searched = {}

NextRecord == CheckRecord \/ DirectorStep \/ ActorStep \/ WriteFile \/ ExitSession \/ Except

SpecRecord == InitRecord /\ [][NextRecord]_vars

(***************************************************************************)
(* Properties                                                              *)
(***************************************************************************)
Returned(o) == pc = "idle" /\ op = o
Succeeded == Returned("export") /\ ret = PyBool(TRUE)

AllWhitespace(s) == \A k \in 1..Len(s) : s[k] \in Whitespace

\* what each operation returns when it finds nothing
NotFoundValue(o) ==
    CASE o = "search" -> PyList(<<>>)
      [] o = "details" -> PyNone
      [] o = "export" -> PyBool(FALSE)

CountLinks(ls, source, target, type) ==
    Cardinality({k \in 1..Len(ls) :
        ls[k].source = source /\ ls[k].target = target /\ ls[k].type = type})

CountType(ls, type) == Cardinality({k \in 1..Len(ls) : ls[k].type = type})

LinksReferToNodes(ns, ls) ==
    \A k \in 1..Len(ls) :
        /\ \E a \in 1..Len(ns) : ns[a].id = ls[k].source
        /\ \E a \in 1..Len(ns) : ns[a].id = ls[k].target

NoDuplicateIds(ns) == \A a, b \in 1..Len(ns) : a # b => ns[a].id # ns[b].id

Cast(title) == Directors(title) \cup Actors(title)

AllNamed(title) == \A p \in Cast(title) : HasName(p)

\* no two persons of the movie share a derived id
DistinctIds(title) ==
    \A p, q \in Cast(title) : p # q => PersonId(Name(p)) # PersonId(Name(q))

PersonsOf(rels) == {rels[k].person : k \in 1..Len(rels)}

Repeats(rels) == \E a, b \in 1..Len(rels) : a # b /\ rels[a].person = rels[b].person /\ rels[a].person # Null

\* C1: when search_movies, get_movie_details or generate_graph_json returns
\* after a failure of the session, the query or the file writing, the value it
\* returns differs from the value it returns when nothing is found.
C1_FailureDistinctFromNotFound ==
    (pc = "idle" /\ op \in {"search", "details", "export"}
        /\ raised \in {"session", "query", "write"})
    => ret # NotFoundValue(op)

\* C2: at every point of the construction and in the written document, the
\* source and the target of every link are ids of nodes present in nodes.
C2_LinksReferToNodes ==
    /\ LinksReferToNodes(nodes, links)
    /\ IsDocument(file) => LinksReferToNodes(file.nodes, file.links)

C2_Witness ==
    /\ pc = "exit" /\ pending = PyBool(TRUE) /\ IsDocument(file)
    /\ Null \in PersonsOf(record.director_rels) \cup PersonsOf(record.actor_rels)
    /\ Repeats(record.director_rels) \/ Repeats(record.actor_rels)
    /\ Len(file.links) >= MaxRels + 1

\* C3: at every point of the construction and in the written document, no
\* two entries of nodes have the same id.
C3_NoDuplicateNodeIds ==
    /\ NoDuplicateIds(nodes)
    /\ IsDocument(file) => NoDuplicateIds(file.nodes)

C3_Witness ==
    /\ pc = "exit" /\ pending = PyBool(TRUE) /\ IsDocument(file)
    /\ Repeats(record.director_rels)
    /\ PersonsOf(record.director_rels) \cap PersonsOf(record.actor_rels) # {}
    /\ {"p1", "p2"} \subseteq PersonsOf(record.director_rels) \cup PersonsOf(record.actor_rels)
    /\ Len(file.nodes) < Len(file.links)

\* C4 as stated: a successful export of a movie with N distinct directors and
\* M distinct actors, none in both sets, has 1 + N + M nodes and N + M links,
\* N of type DIRECTED and M of type ACTED_IN.
C4_CountsAsStated ==
    (Succeeded /\ Directors(arg) \cap Actors(arg) = {})
    => /\ Len(file.nodes) = 1 + Cardinality(Directors(arg)) + Cardinality(Actors(arg))
       /\ Len(file.links) = Cardinality(Directors(arg)) + Cardinality(Actors(arg))
       /\ CountType(file.links, "DIRECTED") = Cardinality(Directors(arg))
       /\ CountType(file.links, "ACTED_IN") = Cardinality(Actors(arg))

\* C4 as amended: the same, for movies no two persons of which have the same
\* id after spaces are replaced by underscores.
C4_CountsDistinctIds ==
    (Succeeded /\ Directors(arg) \cap Actors(arg) = {} /\ AllNamed(arg) /\ DistinctIds(arg))
    => /\ Len(file.nodes) = 1 + Cardinality(Directors(arg)) + Cardinality(Actors(arg))
       /\ Len(file.links) = Cardinality(Directors(arg)) + Cardinality(Actors(arg))
       /\ CountType(file.links, "DIRECTED") = Cardinality(Directors(arg))
       /\ CountType(file.links, "ACTED_IN") = Cardinality(Actors(arg))

C4_Witness ==
    /\ Succeeded /\ Directors(arg) \cap Actors(arg) = {} /\ AllNamed(arg) /\ DistinctIds(arg)
    /\ Directors(arg) # {} /\ Actors(arg) # {}
    /\ Len(file.nodes) = 3

\* the person p has one node, of role Director, and two links to the movie
OneDirectorNodeTwoLinks(p) ==
    LET pid == PersonId(Name(p))
        mine == {k \in 1..Len(file.nodes) : file.nodes[k].id = pid}
        out == {k \in 1..Len(file.links) :
                   file.links[k].source = pid /\ file.links[k].target = MovieId(arg)}
    IN  /\ Cardinality(mine) = 1
        /\ \A k \in mine : file.nodes[k].type = "Person" /\ file.nodes[k].role = "Director"
        /\ Cardinality(out) = 2
        /\ CountLinks(file.links, pid, MovieId(arg), "DIRECTED") = 1
        /\ CountLinks(file.links, pid, MovieId(arg), "ACTED_IN") = 1

\* C5 as stated: in a successful export, every person who both directs and
\* acts has exactly one node, of role Director, and exactly two links from
\* that person's id to the movie id, one DIRECTED and one ACTED_IN.
C5_BothRolesAsStated ==
    Succeeded => \A p \in Directors(arg) \cap Actors(arg) : OneDirectorNodeTwoLinks(p)

\* C5 as amended: the same, for a person whose id no other director or actor
\* of the movie shares.
C5_BothRolesOwnId ==
    (Succeeded /\ AllNamed(arg))
    => \A p \in Directors(arg) \cap Actors(arg) :
          (\A q \in Cast(arg) \ {p} : PersonId(Name(q)) # PersonId(Name(p)))
          => OneDirectorNodeTwoLinks(p)

C5_Witness ==
    /\ Succeeded
    /\ \E p \in Directors(arg) \cap Actors(arg) :
          /\ \A q \in Cast(arg) \ {p} : PersonId(Name(q)) # PersonId(Name(p))
          /\ Actors(arg) \ {p} # {}
          /\ OneDirectorNodeTwoLinks(p)

\* the export query of the running call has returned no record
ExportFoundNothing ==
    op = "export" /\ arg \notin Titles /\ "query" \in effects /\ raised = "none"

\* C6: when the export query returns no record, exports/graph.json keeps the
\* content it had when the call began, no write step is taken, and the call
\* returns False.
C6_NotFoundLeavesFile ==
    ExportFoundNothing
    => /\ file = file_before
       /\ effects \cap {"makedirs", "open", "dump"} = {}
       /\ pc = "idle" => ret = PyBool(FALSE)

C6_Witness ==
    ExportFoundNothing /\ pc = "idle" /\ ret = PyBool(FALSE) /\ IsDocument(file)

\* C7 as stated: a successful export has one link per relationship of the
\* movie in the data store.
C7_OneLinkPerRelationship ==
    Succeeded
    => /\ CountType(file.links, "DIRECTED") = (IF arg = T1 THEN Sum(directed, Persons) ELSE 0)
       /\ CountType(file.links, "ACTED_IN") = (IF arg = T1 THEN Sum(acted, Persons) ELSE 0)

\* C7 as amended: a successful export has one link per person and
\* relationship type of the movie, however many relationships of that type
\* the person has; links are not merged by id.
C7_OneLinkPerPersonAndType ==
    (Succeeded /\ AllNamed(arg))
    => /\ CountType(file.links, "DIRECTED") = Cardinality(Directors(arg))
       /\ CountType(file.links, "ACTED_IN") = Cardinality(Actors(arg))
       /\ \A p \in Cast(arg) :
             /\ CountLinks(file.links, PersonId(Name(p)), MovieId(arg), "DIRECTED")
                = Cardinality({q \in Directors(arg) : PersonId(Name(q)) = PersonId(Name(p))})
             /\ CountLinks(file.links, PersonId(Name(p)), MovieId(arg), "ACTED_IN")
                = Cardinality({q \in Actors(arg) : PersonId(Name(q)) = PersonId(Name(p))})

C7_Witness ==
    /\ Succeeded
    /\ \E p \in Actors(arg) : acted[p] > 1
    /\ {"p1", "p2"} \subseteq Actors(arg)
    /\ CountType(file.links, "ACTED_IN") = Cardinality(Actors(arg))

\* C8: a search with an empty or whitespace-only term returns an empty list
\* and opens no session and runs no query.
C8_BlankSearchTouchesNothing ==
    (op = "search" /\ AllWhitespace(arg))
    => pc = "idle" /\ ret = PyList(<<>>) /\ effects = {} /\ sessions = 0

C8_Witness ==
    op = "search" /\ arg # <<>> /\ AllWhitespace(arg) /\ pc = "idle" /\ ret = PyList(<<>>)

\* C9: at most one session is open, one is open only inside the with block
\* of the running call, and none is open once the call has returned.
C9_SessionsPaired ==
    /\ sessions \in {0, 1}
    /\ sessions = 1 <=> pc \in {"run", "fetched", "directors", "actors", "write", "exit"}
    /\ pc = "idle" => sessions = 0

C9_Witness ==
    pc = "idle" /\ op = "export" /\ raised = "write" /\ "session" \in effects /\ sessions = 0

\* C10: under main, the title generate_graph_json is called with is the
\* title of an entry some earlier search returned.
C10_ExportedTitleWasSearched ==
    op = "export" => searched # {} /\ arg \in searched

C10_Witness ==
    /\ main_pc = "exporting" /\ op = "export" /\ pc = "open"
    /\ last_searched_movies # <<>>
    /\ \A k \in 1..Len(last_searched_movies) : last_searched_movies[k].title # arg
====
